---- MODULE Spec2Model ----
(***************************************************************************)
(* Egyptian cable exports dashboard (src/dashboard.py): the spreadsheet    *)
(* loader, the country/region rollups, the sidebar filter and the derived  *)
(* metrics, as the state machine of one browser session.  The script is    *)
(* re-executed from top to bottom on every widget change; each action      *)
(* below is one such execution.                                            *)
(*                                                                         *)
(* Numbers.  Spreadsheet values are floats in millions.  The model keeps   *)
(* them exact as integers counted in steps of 0.001 / Grid, so that the    *)
(* code's 0.001 threshold is the integer Threshold and values strictly     *)
(* between 0 and 0.001 exist.  Percentages are exact fractions.            *)
(*                                                                         *)
(* Cells.  An openpyxl cell value is None or a value: None is <<>>, the    *)
(* value v is <<v>>.                                                       *)
(***************************************************************************)
EXTENDS Integers, Sequences, FiniteSets, TLC

VARIABLES
    workbook,             \* the file on disk: [file_exists, has_sheet, ws]
    tie_order,            \* how this build's quicksort leaves equal keys
    pc,                   \* "start" | "ready" | "error"
    df_raw,               \* ExportRecords (load_data's cached result)
    df_country,           \* CountryRollup
    df_region,            \* RegionRollup (unfiltered)
    selected_regions,     \* sidebar multiselect
    selected_countries,   \* sidebar multiselect
    usd_mode,             \* currency radio
    top_n,                \* slider
    region_pick,          \* selectbox of tab 2
    country_pick,         \* selectbox of tab 3
    df_filtered,          \* FilteredView
    df_region_filtered,   \* RegionRollup re-derived from FilteredView
    kpi,                  \* the KPI row
    region_tab,           \* tab 2: reg_total .. reg_yoy, df_top
    country_tab,          \* tab 3: ctry_total .. ctry_yoy, rank, country_rank
    compare_tab,          \* tab 4: df_growth, new_markets, lost_markets
    df_display            \* tab 5: the data table / CSV rows

vars == <<workbook, tie_order, pc, df_raw, df_country, df_region,
          selected_regions, selected_countries, usd_mode, top_n,
          region_pick, country_pick, df_filtered, df_region_filtered,
          kpi, region_tab, country_tab, compare_tab, df_display>>

---------------------------------------------------------------------------
(* Bounds of the model *)

\* rows of the worksheet range (the code reads the 194 rows 4..197)
MaxRows == 2

\* steps of the value grid per 0.001
Grid == 2

\* the slider's range, scaled to the model's table sizes (the code: 5..25)
TopNMin == 1

TopNMax == 2

---------------------------------------------------------------------------
(* Python values *)

None == <<>>

Some(v) == <<v>>

\* 0.001 (lines 139, 354, 477, 493) in grid steps
Threshold == Grid

\* x or 0.0 for a numeric cell: None and 0 are both falsy
OrZero(cell) == IF cell = None THEN 0 ELSE IF cell[1] = 0 THEN 0 ELSE cell[1]

\* x or '' for a text cell
OrEmpty(cell) == IF cell = None THEN "" ELSE cell[1]

\* truth value of a text cell: None and '' are falsy
Truthy(cell) == IF cell = None THEN FALSE ELSE cell[1] # ""

\* str(code) for the HS codes of the sheet (line 161 names them)
Str(n) == CASE n = 854449 -> "854449" [] n = 854460 -> "854460"

\* str(code) if code else ''
CodeText(cell) == IF cell = None THEN "" ELSE IF cell[1] = 0 THEN "" ELSE Str(cell[1])

Range(s) == {s[i] : i \in DOMAIN s}

RECURSIVE Gcd(_, _)
Gcd(a, b) == IF b = 0 THEN a ELSE Gcd(b, a % b)

Abs(x) == IF x < 0 THEN -x ELSE x

\* the float n / d, kept exact in lowest terms; d = 0 is the division error
DivByZero == [num |-> 0, den |-> 0]

Frac(n, d) ==
    IF d = 0 THEN DivByZero
    ELSE LET g == Gcd(Abs(n), Abs(d))
             s == IF d < 0 THEN -1 ELSE 1
         IN [num |-> (s * n) \div g, den |-> (s * d) \div g]

Whole(n) == Frac(n, 1)

FracLess(a, b) == a.num * b.den < b.num * a.den

---------------------------------------------------------------------------
(* The worksheets the model loads *)

\* sorted, as groupby and sorted() order them
RegionNames == <<"Africa", "Europe">>

CountryNames == <<"Kenya", "Malta">>

\* a row as iter_rows(values_only=True) yields it, 14 cells: HS code,
\* description, country, region, unit, then QTY, M-EGP, M-USD of 2024, the
\* same of 2025, and the three totals
SheetRow(code, desc, country, region, unit, nums) ==
    <<code, desc, country, region, unit>> \o nums

\* numeric cells: all empty
NoNumbers == <<None, None, None, None, None, None, None, None, None>>

\* numeric cells: values below 0.001 in both years, the total quantity empty
SmallNumbers ==
    <<Some(5), Some(1), Some(1), Some(7), Some(1), Some(1), None, Some(2), Some(2)>>

\* numeric cells: USD grows by half, EGP stays, a zero quantity
GrowingNumbers ==
    <<Some(3), Some(8), Some(4), Some(0), Some(8), Some(6), Some(3), Some(16), Some(10)>>

\* numeric cells: USD in 2025 only, EGP in 2024 only
OneYearNumbers ==
    <<None, Some(3), None, Some(2), None, Some(3), Some(2), Some(3), Some(3)>>

\* the rows a worksheet of the model is made of: two countries of one
\* region, a country listed under two regions, rows with an empty country
\* or region cell, and the row of a sheet line that holds nothing
SheetRows ==
    { SheetRow(None, None, None, None, None, NoNumbers),
      SheetRow(Some(854449), Some("Cables"), Some("Kenya"), Some("Africa"), Some("KG"), SmallNumbers),
      SheetRow(Some(854460), Some("Cables"), Some("Kenya"), Some("Africa"), Some("KG"), GrowingNumbers),
      SheetRow(Some(854449), None, Some("Malta"), Some("Africa"), None, NoNumbers),
      SheetRow(Some(854449), Some("Cables"), Some("Malta"), Some("Africa"), Some("KG"), OneYearNumbers),
      SheetRow(None, Some("Cables"), Some("Kenya"), Some("Europe"), Some("KG"), GrowingNumbers),
      SheetRow(None, None, None, Some("Africa"), None, NoNumbers),
      SheetRow(Some(854460), Some("Cables"), Some("Kenya"), None, Some("KG"), SmallNumbers),
      SheetRow(Some(854460), Some("Cables"), Some(""), Some("Europe"), None, OneYearNumbers) }

\* iter_rows(min_row=4, max_row=197) yields every row of the range, empty
\* ones included
Worksheets == [1..MaxRows -> SheetRows]

Workbooks ==
    { [file_exists |-> TRUE, has_sheet |-> TRUE, ws |-> w] : w \in Worksheets }
    \cup { [file_exists |-> FALSE, has_sheet |-> FALSE, ws |-> <<>>],
           [file_exists |-> TRUE, has_sheet |-> FALSE, ws |-> <<>>] }

---------------------------------------------------------------------------
(* Loader *)

\* the EGP and USD cells of 2024 read from each other's column
ExportRecord_Swapped(row) ==
    [ HS_Code     |-> CodeText(row[1]),
      Description |-> OrEmpty(row[2]),
      Country     |-> row[3][1],
      Region      |-> row[4][1],
      Unit        |-> OrEmpty(row[5]),
      QTY_2024    |-> OrZero(row[6]),
      M_EGP_2024  |-> OrZero(row[8]),
      M_USD_2024  |-> OrZero(row[7]),
      QTY_2025    |-> OrZero(row[9]),
      M_EGP_2025  |-> OrZero(row[10]),
      M_USD_2025  |-> OrZero(row[11]),
      Total_QTY   |-> OrZero(row[12]),
      Total_M_EGP |-> OrZero(row[13]),
      Total_M_USD |-> OrZero(row[14]) ]

\* the dict appended for one row (lines 110-125)
ExportRecord(row) ==
    [ HS_Code     |-> CodeText(row[1]),
      Description |-> OrEmpty(row[2]),
      Country     |-> row[3][1],
      Region      |-> row[4][1],
      Unit        |-> OrEmpty(row[5]),
      QTY_2024    |-> OrZero(row[6]),
      M_EGP_2024  |-> OrZero(row[7]),
      M_USD_2024  |-> OrZero(row[8]),
      QTY_2025    |-> OrZero(row[9]),
      M_EGP_2025  |-> OrZero(row[10]),
      M_USD_2025  |-> OrZero(row[11]),
      Total_QTY   |-> OrZero(row[12]),
      Total_M_EGP |-> OrZero(row[13]),
      Total_M_USD |-> OrZero(row[14]) ]

\* if country and region
Retained(row) == Truthy(row[3]) /\ Truthy(row[4])

\* the loop over ws.iter_rows: rows is the list built so far
RECURSIVE IterRows(_, _)
IterRows(ws, rows) ==
    IF ws = <<>> THEN rows
    ELSE IterRows(Tail(ws),
                  IF Retained(Head(ws)) THEN Append(rows, ExportRecord(Head(ws)))
                  ELSE rows)

\* load_workbook raises when the file is missing, wb['Sheet1'] when the sheet is
LoadRaises(wbk) == ~wbk.file_exists \/ ~wbk.has_sheet

load_data(wbk) == IterRows(wbk.ws, <<>>)

---------------------------------------------------------------------------
(* Aggregator *)

ValueColumns ==
    {"M_USD_2024", "M_USD_2025", "Total_M_USD",
     "M_EGP_2024", "M_EGP_2025", "Total_M_EGP"}

QuantityColumns == {"QTY_2024", "QTY_2025", "Total_QTY"}

\* Series.sum(): 0 for an empty series
RECURSIVE SumCol(_, _)
SumCol(df, col) ==
    IF df = <<>> THEN 0 ELSE Head(df)[col] + SumCol(Tail(df), col)

\* Series.nunique()
NUnique(df, col) == Cardinality({df[i][col] : i \in DOMAIN df})

\* groupby sorts its group keys: all (region, country) keys in that order
SortedKeys ==
    [i \in 1..(Len(RegionNames) * Len(CountryNames)) |->
        <<RegionNames[((i - 1) \div Len(CountryNames)) + 1],
          CountryNames[((i - 1) % Len(CountryNames)) + 1]>>]

\* DataFrame(rows): the columns come from the dicts, so no row means no column,
\* and groupby(['Region', 'Country']) raises KeyError
GroupbyRaises(rows) == rows = <<>>

\* grouping by country alone
InGroup_ByCountry(df, k) == SelectSeq(df, LAMBDA r : r.Country = k[2])

InGroup(df, k) == SelectSeq(df, LAMBDA r : r.Region = k[1] /\ r.Country = k[2])

\* one aggregated row of groupby(['Region', 'Country']).agg({...: 'sum'})
CountrySums(df, k) ==
    [Region |-> k[1], Country |-> k[2]] @@
    [c \in ValueColumns \cup QuantityColumns |-> SumCol(InGroup(df, k), c)]

\* the division guarded by > 0 instead of > 0.001
YoYGrowth_ZeroFloor(r) ==
    IF r.M_USD_2024 > 0
    THEN Frac((r.M_USD_2025 - r.M_USD_2024) * 100, r.M_USD_2024)
    ELSE IF r.M_USD_2025 > 0 THEN Whole(100) ELSE Whole(0)

\* lines 138-139: the lambda of df_country['YoY Growth %']
YoYGrowth(r) ==
    IF r.M_USD_2024 > Threshold
    THEN Frac((r.M_USD_2025 - r.M_USD_2024) * 100, r.M_USD_2024)
    ELSE IF r.M_USD_2025 > 0 THEN Whole(100) ELSE Whole(0)

WithYoY(r) == r @@ [YoY_Growth |-> YoYGrowth(r)]

\* lines 131-140: df_country
CountryRollup(df) ==
    LET keys == SelectSeq(SortedKeys, LAMBDA k : InGroup(df, k) # <<>>)
    IN [i \in DOMAIN keys |-> WithYoY(CountrySums(df, keys[i]))]

\* Series.count() of the Country column counts the non-null cells: a group key
\* is never null, so that is every row
CountCountry(df) == Len(df)

\* every region summed over the whole frame instead of its own rows
RegionSums_WholeFrame(df, cols) ==
    LET regs == SelectSeq(RegionNames,
                          LAMBDA g : \E i \in DOMAIN df : df[i].Region = g)
    IN [i \in DOMAIN regs |->
          [Region |-> regs[i], Countries |-> CountCountry(df)] @@
          [c \in cols |-> SumCol(df, c)]]

\* groupby('Region').agg({cols: 'sum', 'Country': 'count'}), renamed Countries
RegionSums(df, cols) ==
    LET regs == SelectSeq(RegionNames,
                          LAMBDA g : \E i \in DOMAIN df : df[i].Region = g)
        rows(g) == SelectSeq(df, LAMBDA r : r.Region = g)
    IN [i \in DOMAIN regs |->
          [Region |-> regs[i], Countries |-> CountCountry(rows(regs[i]))] @@
          [c \in cols |-> SumCol(rows(regs[i]), c)]]

\* lines 142-146: df_region
RegionRollup(dfc) == RegionSums(dfc, ValueColumns)

---------------------------------------------------------------------------
(* Sorting *)

\* sort_values is called without kind=, so numpy's quicksort orders the rows:
\* it promises nothing about rows with equal keys.  A build either leaves
\* them as they were or not; the model keeps the two outcomes "kept" and
\* "reversed" and fixes one per build (variable tie_order).
TieOrders == {"kept", "reversed"}

\* df sorted by a strict order on its positions: before[<<i, j>>] says that
\* row i must come before row j
SortValues(df, before, ties) ==
    LET n == Len(df)
        tied(i, j) == ~before[<<i, j>>] /\ ~before[<<j, i>>]
        first(i, j) == IF ties = "kept" THEN i < j ELSE i > j
        place(i) == 1 + Cardinality({j \in 1..n :
                          \/ before[<<j, i>>]
                          \/ (j # i /\ tied(i, j) /\ first(j, i))})
    IN [p \in 1..n |-> df[CHOOSE i \in 1..n : place(i) = p]]

\* sort_values(col, ascending=False)
SortDescending(df, col, ties) ==
    SortValues(df,
               [p \in (DOMAIN df) \X (DOMAIN df) |-> df[p[1]][col] > df[p[2]][col]],
               ties)

\* sort_values('Growth', ascending=True)
SortGrowthAscending(df, ties) ==
    SortValues(df,
               [p \in (DOMAIN df) \X (DOMAIN df) |->
                   FracLess(df[p[1]].YoY_Growth, df[p[2]].YoY_Growth)],
               ties)

\* DataFrame.head(n)
HeadN(df, n) == SubSeq(df, 1, IF n < Len(df) THEN n ELSE Len(df))

\* DataFrame.tail(n)
TailN(df, n) == SubSeq(df, IF n < Len(df) THEN Len(df) - n + 1 ELSE 1, Len(df))

---------------------------------------------------------------------------
(* Sidebar *)

\* line 167: all_regions
AllRegions(dfc) == {dfc[i].Region : i \in DOMAIN dfc}

\* line 174: available_countries
AvailableCountries(dfc, regions) ==
    {dfc[i].Country : i \in {j \in DOMAIN dfc : dfc[j].Region \in regions}}

\* lines 186-188: val_2024, val_2025, val_total
Val2024(usd) == IF usd THEN "M_USD_2024" ELSE "M_EGP_2024"

Val2025(usd) == IF usd THEN "M_USD_2025" ELSE "M_EGP_2025"

ValTotal(usd) == IF usd THEN "Total_M_USD" ELSE "Total_M_EGP"

\* line 190: currency_label
CurrencyLabel(usd) == IF usd THEN "M-USD" ELSE "M-EGP"

\* the two isin tests joined by | instead of &
Mask_Or(r, regions, countries) == r.Region \in regions \/ r.Country \in countries

\* line 196: mask
Mask(r, regions, countries) == r.Region \in regions /\ r.Country \in countries

\* the mask applied to the frame the previous execution left behind
Filtered_InPlace(dfc, regions, countries) ==
    SelectSeq(IF pc = "ready" THEN df_filtered ELSE dfc,
              LAMBDA r : Mask(r, regions, countries))

\* line 197: df_filtered
Filtered(dfc, regions, countries) ==
    SelectSeq(dfc, LAMBDA r : Mask(r, regions, countries))

\* lines 198-200: df_region_filtered
RegionFiltered(dff, usd) ==
    RegionSums(dff, {Val2024(usd), Val2025(usd), ValTotal(usd)})

\* the options of a selectbox: sorted(df[col].unique())
SortedUnique(df, col, names) ==
    SelectSeq(names, LAMBDA x : \E i \in DOMAIN df : df[i][col] = x)

\* a selectbox shows its first option until the user picks another; with no
\* option its value is None
FirstOption(options) == IF options = <<>> THEN None ELSE Some(options[1])

---------------------------------------------------------------------------
(* Derived values *)

\* series == pick, for a selectbox value that may be None
IsPick(v, pick) == IF pick = None THEN FALSE ELSE v = pick[1]

\* the guard written >= instead of >
PctChange_AtFloor(a, b, floor) ==
    IF a >= floor THEN Frac((b - a) * 100, a) ELSE Whole(0)

\* (b - a) / a * 100 if a > floor else 0  (lines 209, 289, 354)
PctChange(a, b, floor) ==
    IF a > floor THEN Frac((b - a) * 100, a) ELSE Whole(0)

\* lines 206-213: the KPI row
KpiRow(dff, usd, ties) ==
    LET total_2024 == SumCol(dff, Val2024(usd))
        total_2025 == SumCol(dff, Val2025(usd))
        sorted == SortDescending(dff, ValTotal(usd), ties)
    IN [ total_all       |-> SumCol(dff, ValTotal(usd)),
         total_2024      |-> total_2024,
         total_2025      |-> total_2025,
         yoy_overall     |-> PctChange(total_2024, total_2025, 0),
         num_countries   |-> NUnique(dff, "Country"),
         num_regions     |-> NUnique(dff, "Region"),
         top_country     |-> IF Len(dff) > 0 THEN sorted[1].Country ELSE "N/A",
         top_country_val |-> IF Len(dff) > 0 THEN sorted[1][ValTotal(usd)] ELSE 0 ]

\* lines 285-300: tab 2
RegionTab(dff, usd, pick, n, ties) ==
    LET df_reg == SortDescending(SelectSeq(dff, LAMBDA r : IsPick(r.Region, pick)),
                                 ValTotal(usd), ties)
        reg_2024 == SumCol(df_reg, Val2024(usd))
        reg_2025 == SumCol(df_reg, Val2025(usd))
    IN [ df_reg    |-> df_reg,
         reg_total |-> SumCol(df_reg, ValTotal(usd)),
         reg_2024  |-> reg_2024,
         reg_2025  |-> reg_2025,
         reg_yoy   |-> PctChange(reg_2024, reg_2025, 0),
         df_top    |-> HeadN(df_reg, n) ]

\* line 359: rank['Rank'] = range(1, len(rank) + 1)
WithRank(df) == [i \in DOMAIN df |-> df[i] @@ [Rank |-> i]]

\* line 358-359: rank
RankTable(dfc, usd, ties) == WithRank(SortDescending(dfc, ValTotal(usd), ties))

\* country_rank: a rank, or the '-' of line 361
NotFound == [sentinel |-> "-"]

\* lines 360-361: country_rank
CountryRank(rank, pick) ==
    LET hits == SelectSeq(rank, LAMBDA r : IsPick(r.Country, pick))
    IN IF Len(hits) > 0 THEN [Rank |-> hits[1].Rank] ELSE NotFound

\* lines 346-361: tab 3
CountryTab(raw, dfc, usd, pick, ties) ==
    LET df_ctry == SelectSeq(raw, LAMBDA r : IsPick(r.Country, pick))
        ctry_2024 == SumCol(df_ctry, Val2024(usd))
        ctry_2025 == SumCol(df_ctry, Val2025(usd))
        rank == RankTable(dfc, usd, ties)
    IN [ ctry_total   |-> SumCol(df_ctry, ValTotal(usd)),
         ctry_2024    |-> ctry_2024,
         ctry_2025    |-> ctry_2025,
         ctry_yoy     |-> PctChange(ctry_2024, ctry_2025, Threshold),
         ctry_region  |-> IF Len(df_ctry) > 0 THEN df_ctry[1].Region ELSE "",
         rank         |-> rank,
         country_rank |-> CountryRank(rank, pick) ]

\* line 477: new_markets
NewMarkets(dff, usd) ==
    SelectSeq(dff, LAMBDA r : r[Val2024(usd)] < Threshold /\ r[Val2025(usd)] > 0)

\* line 493: lost_markets
LostMarkets(dff, usd) ==
    SelectSeq(dff, LAMBDA r : r[Val2024(usd)] > 0 /\ r[Val2025(usd)] < Threshold)

\* lines 453-455: df_growth
GrowthTable(dff, n, ties) == TailN(SortGrowthAscending(dff, ties), n)

\* lines 453-493: tab 4
CompareTab(dff, usd, n, ties) ==
    [ df_growth    |-> GrowthTable(dff, n, ties),
      new_markets  |-> NewMarkets(dff, usd),
      lost_markets |-> LostMarkets(dff, usd) ]

\* lines 515-517: the six columns of df_display, renamed for the currency
DisplayColumns(r, usd) ==
    [ Region     |-> r.Region,
      Country    |-> r.Country,
      Y2024      |-> r[Val2024(usd)],
      Y2025      |-> r[Val2025(usd)],
      Total      |-> r[ValTotal(usd)],
      YoY_Growth |-> r.YoY_Growth,
      currency_label |-> CurrencyLabel(usd) ]

\* lines 515-520: df_display, sorted by total, the index starting at 1
DisplayTable(dff, usd, ties) ==
    WithRank(SortDescending([i \in DOMAIN dff |-> DisplayColumns(dff[i], usd)],
                            "Total", ties))

---------------------------------------------------------------------------
(* The session *)

\* a name the script has not bound yet
NotRendered == [rendered |-> FALSE]

\* st.slider("Top N countries in charts", 5, 25, 12): the default lies a
\* third of the way up the range
TopNDefault == TopNMin + ((TopNMax - TopNMin) \div 3)

\* A widget keeps its value across executions while its options stay the
\* same; with other options it is a new widget and shows its default.
KeptSelection(selection, old_options, new_options) ==
    IF new_options = old_options THEN selection ELSE new_options

KeptPick(pick, old_options, new_options) ==
    IF new_options = old_options THEN pick ELSE FirstOption(new_options)

RegionOptions(dff) == SortedUnique(dff, "Region", RegionNames)

CountryOptions(dff) == SortedUnique(dff, "Country", CountryNames)

Init ==
    /\ workbook \in Workbooks
    /\ tie_order \in TieOrders
    /\ pc = "start"
    /\ df_raw = <<>>
    /\ df_country = <<>>
    /\ df_region = <<>>
    /\ selected_regions = {}
    /\ selected_countries = {}
    /\ usd_mode = TRUE
    /\ top_n = TopNDefault
    /\ region_pick = None
    /\ country_pick = None
    /\ df_filtered = <<>>
    /\ df_region_filtered = <<>>
    /\ kpi = NotRendered
    /\ region_tab = NotRendered
    /\ country_tab = NotRendered
    /\ compare_tab = NotRendered
    /\ df_display = <<>>

\* lines 283, 344: the value of a selectbox in an execution whose
\* df_filtered is dff
RegionPick(dff) ==
    KeptPick(region_pick, RegionOptions(df_filtered), RegionOptions(dff))

CountryPick(dff) ==
    KeptPick(country_pick, CountryOptions(df_filtered), CountryOptions(dff))

\* lines 157-553: the script from the sidebar down, with the widget values
\* of this execution; dfr and dfc are df_raw and df_country
Script(dfr, dfc, regions, countries, usd, n, rp, cp) ==
    LET dff == Filtered(dfc, regions, countries)
    IN /\ selected_regions' = regions
       /\ selected_countries' = countries
       /\ usd_mode' = usd
       /\ top_n' = n
       /\ df_filtered' = dff
       /\ df_region_filtered' = RegionFiltered(dff, usd)
       /\ kpi' = KpiRow(dff, usd, tie_order)
       /\ region_pick' = rp
       /\ region_tab' = RegionTab(dff, usd, rp, n, tie_order)
       /\ country_pick' = cp
       /\ country_tab' = CountryTab(dfr, dfc, usd, cp, tie_order)
       /\ compare_tab' = CompareTab(dff, usd, n, tie_order)
       /\ df_display' = DisplayTable(dff, usd, tie_order)

rendered == <<selected_regions, selected_countries, usd_mode, top_n,
              region_pick, country_pick, df_filtered, df_region_filtered,
              kpi, region_tab, country_tab, compare_tab, df_display>>

\* the first execution, widgets at their defaults (lines 168-193)
FreshScript(dfr, dfc) ==
    Script(dfr, dfc, AllRegions(dfc), AvailableCountries(dfc, AllRegions(dfc)),
           TRUE, TopNDefault,
           FirstOption(RegionOptions(dfc)), FirstOption(CountryOptions(dfc)))

\* line 128: load_data raises, the script stops there
LoadFails ==
    /\ pc = "start"
    /\ LoadRaises(workbook)
    /\ pc' = "error"
    /\ UNCHANGED <<workbook, tie_order, df_raw, df_country, df_region, rendered>>

\* line 131: the load succeeded, the groupby raises
AggregateFails ==
    /\ pc = "start"
    /\ ~LoadRaises(workbook)
    /\ GroupbyRaises(load_data(workbook))
    /\ pc' = "error"
    /\ df_raw' = load_data(workbook)
    /\ UNCHANGED <<workbook, tie_order, df_country, df_region, rendered>>

\* lines 128-553: the first execution that reaches the end
FirstRun ==
    /\ pc = "start"
    /\ ~LoadRaises(workbook)
    /\ ~GroupbyRaises(load_data(workbook))
    /\ pc' = "ready"
    /\ df_raw' = load_data(workbook)
    /\ df_country' = CountryRollup(df_raw')
    /\ df_region' = RegionRollup(df_country')
    /\ FreshScript(df_raw', df_country')
    /\ UNCHANGED <<workbook, tie_order>>

\* the page is loaded again: a failed script fails again (an exception is
\* not cached), a rendered one starts over with fresh widgets
Reload ==
    /\ pc # "start"
    /\ IF pc = "error"
       THEN UNCHANGED <<rendered>>
       ELSE FreshScript(df_raw, df_country)
    /\ UNCHANGED <<workbook, tie_order, pc, df_raw, df_country, df_region>>

\* line 168: the region multiselect changes; the country multiselect's
\* options (line 174) follow it
SelectRegions(regions) ==
    /\ pc = "ready"
    /\ regions # selected_regions
    /\ LET countries == KeptSelection(selected_countries,
                              AvailableCountries(df_country, selected_regions),
                              AvailableCountries(df_country, regions))
           dff == Filtered(df_country, regions, countries)
       IN Script(df_raw, df_country, regions, countries, usd_mode, top_n,
                 RegionPick(dff), CountryPick(dff))
    /\ UNCHANGED <<workbook, tie_order, pc, df_raw, df_country, df_region>>

\* line 175: the country multiselect changes
SelectCountries(countries) ==
    /\ pc = "ready"
    /\ countries # selected_countries
    /\ LET dff == Filtered(df_country, selected_regions, countries)
       IN Script(df_raw, df_country, selected_regions, countries, usd_mode, top_n,
                 RegionPick(dff), CountryPick(dff))
    /\ UNCHANGED <<workbook, tie_order, pc, df_raw, df_country, df_region>>

\* line 183: the currency radio changes
SetCurrency ==
    /\ pc = "ready"
    /\ Script(df_raw, df_country, selected_regions, selected_countries,
              ~usd_mode, top_n, region_pick, country_pick)
    /\ UNCHANGED <<workbook, tie_order, pc, df_raw, df_country, df_region>>

\* line 193: the slider changes
SetTopN(n) ==
    /\ pc = "ready"
    /\ n # top_n
    /\ Script(df_raw, df_country, selected_regions, selected_countries,
              usd_mode, n, region_pick, country_pick)
    /\ UNCHANGED <<workbook, tie_order, pc, df_raw, df_country, df_region>>

\* line 283: another region is picked in tab 2
PickRegion(r) ==
    /\ pc = "ready"
    /\ Some(r) # region_pick
    /\ Script(df_raw, df_country, selected_regions, selected_countries,
              usd_mode, top_n, Some(r), country_pick)
    /\ UNCHANGED <<workbook, tie_order, pc, df_raw, df_country, df_region>>

\* line 344: another country is picked in tab 3
PickCountry(c) ==
    /\ pc = "ready"
    /\ Some(c) # country_pick
    /\ Script(df_raw, df_country, selected_regions, selected_countries,
              usd_mode, top_n, region_pick, Some(c))
    /\ UNCHANGED <<workbook, tie_order, pc, df_raw, df_country, df_region>>

Next ==
    \/ LoadFails
    \/ AggregateFails
    \/ FirstRun
    \/ Reload
    \/ \E regions \in SUBSET AllRegions(df_country) : SelectRegions(regions)
    \/ \E countries \in SUBSET AvailableCountries(df_country, selected_regions) :
          SelectCountries(countries)
    \/ SetCurrency
    \/ \E n \in TopNMin..TopNMax : SetTopN(n)
    \/ \E r \in Range(RegionOptions(df_filtered)) : PickRegion(r)
    \/ \E c \in Range(CountryOptions(df_filtered)) : PickCountry(c)

Spec == Init /\ [][Next]_vars

---------------------------------------------------------------------------
(* Properties *)

Keys(df) == {<<df[i].Region, df[i].Country>> : i \in DOMAIN df}

\* the sum of a column over the rows of df at the positions idx
RECURSIVE SumAt(_, _, _)
SumAt(df, idx, col) ==
    IF idx = {} THEN 0
    ELSE LET i == CHOOSE j \in idx : TRUE
         IN df[i][col] + SumAt(df, idx \ {i}, col)

TrackedColumns ==
    {"QTY_2024", "M_EGP_2024", "M_USD_2024", "QTY_2025", "M_EGP_2025",
     "M_USD_2025", "Total_QTY", "Total_M_EGP", "Total_M_USD"}

\* C1: CountryRollup has exactly one row per (region, country) pair of the
\* loaded records, and each of its nine numeric fields is the sum of that
\* column over the records of exactly that pair.
C1_CountryRollupSums ==
    pc = "ready" =>
      /\ Keys(df_country) = Keys(df_raw)
      /\ Len(df_country) = Cardinality(Keys(df_raw))
      /\ \A i \in DOMAIN df_country : \A c \in TrackedColumns :
            df_country[i][c] =
              SumAt(df_raw,
                    {j \in DOMAIN df_raw :
                        /\ df_raw[j].Region = df_country[i].Region
                        /\ df_raw[j].Country = df_country[i].Country},
                    c)

\* a rollup row that sums two records, beside the row of another pair that
\* shares its country
C1_Witness ==
    /\ pc = "ready"
    /\ Len(df_raw) > Len(df_country)
    /\ \E i \in DOMAIN df_country : df_country[i].M_USD_2024 = 5
                                    /\ df_country[i].Total_QTY = 3

\* C2: the filtered RegionRollup has exactly one row per region of the
\* filtered CountryRollup rows; its 2024, 2025 and total fields are the sums
\* of the active currency's fields over those rows of the region, and
\* Countries is the number of distinct countries among them.
C2_RegionRollupSums ==
    pc = "ready" =>
      LET rowsOf(g) == {j \in DOMAIN df_filtered : df_filtered[j].Region = g}
      IN /\ {df_region_filtered[i].Region : i \in DOMAIN df_region_filtered}
              = {df_filtered[j].Region : j \in DOMAIN df_filtered}
         /\ \A i, k \in DOMAIN df_region_filtered :
               df_region_filtered[i].Region = df_region_filtered[k].Region => i = k
         /\ \A i \in DOMAIN df_region_filtered :
               LET row == df_region_filtered[i]
                   own == rowsOf(row.Region)
               IN /\ \A c \in {Val2024(usd_mode), Val2025(usd_mode), ValTotal(usd_mode)} :
                        row[c] = SumAt(df_filtered, own, c)
                  /\ row.Countries = Cardinality({df_filtered[j].Country : j \in own})

\* EGP mode, a region of two countries with a total, beside another region
C2_Witness ==
    /\ pc = "ready"
    /\ ~usd_mode
    /\ \E i \in DOMAIN df_region_filtered :
          /\ df_region_filtered[i].Countries = 2
          /\ df_region_filtered[i].Total_M_EGP > 0

\* the value v in millions, in grid steps
Millions(v) == v * 1000 * Grid

UsdRow(usd2024, usd2025) ==
    [M_USD_2024 |-> Millions(usd2024), M_USD_2025 |-> Millions(usd2025)]

\* C3: YoY Growth % of every CountryRollup row follows the three-way policy
\* on the row's summed USD values and never divides by zero; (0, 0) gives
\* 0.0, (0, 5) gives 100.0, (100, 150) gives 50.0, (100, 50) gives -50.0.
C3_YoYPolicy ==
    pc = "ready" =>
      /\ \A i \in DOMAIN df_country :
            LET r == df_country[i]
                g == r.YoY_Growth
            IN /\ g # DivByZero
               /\ g.den > 0
               /\ IF r.M_USD_2024 > Threshold
                  THEN g.num * r.M_USD_2024 = (r.M_USD_2025 - r.M_USD_2024) * 100 * g.den
                  ELSE IF r.M_USD_2025 > 0
                       THEN g = [num |-> 100, den |-> 1]
                       ELSE g = [num |-> 0, den |-> 1]
      /\ YoYGrowth(UsdRow(0, 0)) = [num |-> 0, den |-> 1]
      /\ YoYGrowth(UsdRow(0, 5)) = [num |-> 100, den |-> 1]
      /\ YoYGrowth(UsdRow(100, 150)) = [num |-> 50, den |-> 1]
      /\ YoYGrowth(UsdRow(100, 50)) = [num |-> -50, den |-> 1]

\* a row above the threshold growing by half, beside a row at or below the
\* threshold with a 2025 value
C3_Witness ==
    /\ pc = "ready"
    /\ \E i, j \in DOMAIN df_country :
          /\ df_country[i].M_USD_2024 > Threshold
          /\ df_country[i].YoY_Growth = [num |-> 50, den |-> 1]
          /\ df_country[j].M_USD_2024 > 0
          /\ df_country[j].M_USD_2024 <= Threshold
          /\ df_country[j].YoY_Growth = [num |-> 100, den |-> 1]

\* the three-way policy on a pair of values, as an exact fraction
Policy(v2024, v2025) ==
    IF v2024 > Threshold THEN Frac((v2025 - v2024) * 100, v2024)
    ELSE IF v2025 > 0 THEN Whole(100) ELSE Whole(0)

\* C4: in either currency mode the YoY Growth % shown for a row (data table,
\* CSV, growth chart) is the three-way policy on the row's 2024 and 2025
\* values in the active currency.
C4_YoYInActiveCurrency ==
    pc = "ready" =>
      /\ \A i \in DOMAIN df_display :
            df_display[i].YoY_Growth = Policy(df_display[i].Y2024, df_display[i].Y2025)
      /\ \A i \in DOMAIN compare_tab.df_growth :
            LET r == compare_tab.df_growth[i]
            IN r.YoY_Growth = Policy(r[Val2024(usd_mode)], r[Val2025(usd_mode)])

\* C5: FilteredView holds exactly the CountryRollup rows whose region is
\* selected AND whose country is selected: no row from outside the rollup,
\* no country outside the selection, and no region in the re-derived
\* RegionRollup without a filtered row.  A region that is not (or no longer)
\* selected has no row in either.
C5_FilterConjunction ==
    pc = "ready" =>
      LET chosen == {j \in DOMAIN df_country :
                        /\ df_country[j].Region \in selected_regions
                        /\ df_country[j].Country \in selected_countries}
      IN /\ \A i \in DOMAIN df_filtered :
               /\ \E j \in chosen : df_country[j] = df_filtered[i]
               /\ df_filtered[i].Region \in selected_regions
               /\ df_filtered[i].Country \in selected_countries
         /\ \A j \in chosen : \E i \in DOMAIN df_filtered : df_filtered[i] = df_country[j]
         /\ Len(df_filtered) = Cardinality(chosen)
         /\ \A i \in DOMAIN df_region_filtered :
               /\ df_region_filtered[i].Region \in selected_regions
               /\ \E j \in DOMAIN df_filtered :
                     df_filtered[j].Region = df_region_filtered[i].Region

\* a region was deselected, and one of its rows names a country that is
\* still selected; another row stays in view
C5_Witness ==
    /\ pc = "ready"
    /\ df_filtered # <<>>
    /\ \E j \in DOMAIN df_country :
          /\ df_country[j].Region \notin selected_regions
          /\ df_country[j].Country \in selected_countries

\* C6: the global rank of the picked country is its 1-based position in the
\* unfiltered CountryRollup sorted descending by the active currency's total,
\* rows of equal total in their original order; the ranks are 1..n; the
\* lookup gives '-' exactly when no rollup row has that country.
C6_StableRank ==
    pc = "ready" =>
      LET rank == country_tab.rank
          total == ValTotal(usd_mode)
          orig(i) == CHOOSE k \in DOMAIN df_country :
                        /\ df_country[k].Region = rank[i].Region
                        /\ df_country[k].Country = rank[i].Country
          hits == {i \in DOMAIN rank : IsPick(rank[i].Country, country_pick)}
      IN /\ Len(rank) = Len(df_country)
         /\ \A i \in DOMAIN rank : rank[i].Rank = i
         /\ \A i, j \in DOMAIN rank :
               i < j => \/ rank[i][total] > rank[j][total]
                        \/ (rank[i][total] = rank[j][total] /\ orig(i) < orig(j))
         /\ (country_tab.country_rank = NotFound) <=> (hits = {})
         /\ hits # {} =>
               \A i \in hits : country_tab.country_rank.Rank <= i

\* C7: in each currency mode no FilteredView row is both a new market and a
\* lost market.
C7_NewLostDisjoint ==
    pc = "ready" =>
      \A i \in DOMAIN compare_tab.new_markets :
         \A j \in DOMAIN compare_tab.lost_markets :
            compare_tab.new_markets[i] # compare_tab.lost_markets[j]

\* a cell that holds something
NonEmpty(cell) == IF cell = None THEN FALSE ELSE cell[1] # ""

\* the worksheet column (1-based) each numeric field is read from
FieldColumn ==
    [ QTY_2024 |-> 6, M_EGP_2024 |-> 7, M_USD_2024 |-> 8,
      QTY_2025 |-> 9, M_EGP_2025 |-> 10, M_USD_2025 |-> 11,
      Total_QTY |-> 12, Total_M_EGP |-> 13, Total_M_USD |-> 14 ]

\* C8: the loader emits one record, in row order, for exactly the rows whose
\* country and region cells are both non-empty; an absent numeric cell
\* becomes 0 and a present one is carried over unchanged.
C8_LoaderRecords ==
    (pc # "start" /\ workbook.file_exists /\ workbook.has_sheet) =>
      LET ws == workbook.ws
          kept == {i \in DOMAIN ws : NonEmpty(ws[i][3]) /\ NonEmpty(ws[i][4])}
          nth(j) == CHOOSE i \in kept : Cardinality({k \in kept : k < i}) = j - 1
      IN /\ Len(df_raw) = Cardinality(kept)
         /\ \A j \in DOMAIN df_raw :
               LET row == ws[nth(j)]
               IN /\ df_raw[j].Country = row[3][1]
                  /\ df_raw[j].Region = row[4][1]
                  /\ \A f \in DOMAIN FieldColumn :
                        df_raw[j][f] = IF row[FieldColumn[f]] = None THEN 0
                                       ELSE row[FieldColumn[f]][1]

\* the first row is skipped for its empty country, the second is loaded with
\* its empty total-quantity cell read as 0 and its other cells as they are
C8_Witness ==
    /\ pc = "ready"
    /\ Len(workbook.ws) = 2
    /\ workbook.ws[1][3] = None
    /\ workbook.ws[2][12] = None
    /\ Len(df_raw) = 1
    /\ df_raw[1].Total_QTY = 0
    /\ df_raw[1].QTY_2025 = 7

\* C9: load and aggregation end in an error if and only if the file or the
\* worksheet is missing, whatever the rows hold; and after that failure
\* nothing is rendered.
C9_ErrorIffMissing ==
    pc # "start" =>
      /\ (pc = "error") <=> (~workbook.file_exists \/ ~workbook.has_sheet)
      /\ pc = "error" =>
            /\ df_country = <<>>
            /\ df_region = <<>>
            /\ df_filtered = <<>>
            /\ kpi = NotRendered

\* C10: with no region or no country selected, FilteredView and the
\* re-derived RegionRollup are empty and the derived values are the "no
\* data" values: totals 0, overall YoY 0, counts 0, top market 'N/A' with
\* value 0, no new market, no lost market, no Top-N row.
C10_EmptySelection ==
    (pc = "ready" /\ (selected_regions = {} \/ selected_countries = {})) =>
      /\ df_filtered = <<>>
      /\ df_region_filtered = <<>>
      /\ kpi.total_all = 0
      /\ kpi.total_2024 = 0
      /\ kpi.total_2025 = 0
      /\ kpi.yoy_overall = [num |-> 0, den |-> 1]
      /\ kpi.num_countries = 0
      /\ kpi.num_regions = 0
      /\ kpi.top_country = "N/A"
      /\ kpi.top_country_val = 0
      /\ region_pick = None
      /\ region_tab.reg_total = 0
      /\ region_tab.reg_yoy = [num |-> 0, den |-> 1]
      /\ region_tab.df_top = <<>>
      /\ compare_tab.df_growth = <<>>
      /\ compare_tab.new_markets = <<>>
      /\ compare_tab.lost_markets = <<>>
      /\ df_display = <<>>

\* every country deselected while a region is still selected
C10_Witness ==
    /\ pc = "ready"
    /\ selected_regions # {}
    /\ selected_countries = {}
    /\ df_country # <<>>
    /\ kpi.top_country = "N/A"

\* the rows of df that a stable descending sort puts in its first n places:
\* a row's place counts the rows that beat it on the metric and the rows
\* that tie with it and stand before it; more[<<i, j>>] says row i beats row j
FirstOfStableDescending(df, more, n) ==
    LET place(i) == 1 + Cardinality({j \in DOMAIN df :
                          \/ more[<<j, i>>]
                          \/ (j < i /\ ~more[<<i, j>>] /\ ~more[<<j, i>>])})
    IN {df[i] : i \in {k \in DOMAIN df : place(k) <= n}}

RowsOf(df) == {df[i] : i \in DOMAIN df}

\* C11: for every N the countries selected as Top-N by total value (within
\* the picked region) and as Top-N by YoY growth (within FilteredView) are
\* exactly the first N rows of the stable descending sort of the candidate
\* rows by that metric, all rows when there are fewer than N; rows tied at
\* the cut-off are selected in original row order.
C11_TopNStableDescending ==
    pc = "ready" =>
      LET df_reg == SelectSeq(df_filtered, LAMBDA r : IsPick(r.Region, region_pick))
          by_total == [p \in (DOMAIN df_reg) \X (DOMAIN df_reg) |->
                          df_reg[p[1]][ValTotal(usd_mode)] > df_reg[p[2]][ValTotal(usd_mode)]]
          by_growth == [p \in (DOMAIN df_filtered) \X (DOMAIN df_filtered) |->
                          FracLess(df_filtered[p[2]].YoY_Growth,
                                   df_filtered[p[1]].YoY_Growth)]
      IN /\ RowsOf(region_tab.df_top) = FirstOfStableDescending(df_reg, by_total, top_n)
         /\ RowsOf(compare_tab.df_growth)
               = FirstOfStableDescending(df_filtered, by_growth, top_n)

\* C12: in USD mode, for a picked country that occurs in exactly one region,
\* the YoY value of the per-country detail equals that country's CountryRollup
\* YoY Growth %, 100.0 included for a country whose 2024 value is at most
\* 0.001 and whose 2025 value is above 0.
C12_DetailYoYMatchesRollup ==
    (pc = "ready" /\ usd_mode /\ country_pick # None) =>
      LET rows == {i \in DOMAIN df_country : df_country[i].Country = country_pick[1]}
      IN Cardinality(rows) = 1 =>
           \A i \in rows : country_tab.ctry_yoy = df_country[i].YoY_Growth

\* FilteredView as the records and the current selection give it
ExpectedFiltered ==
    SelectSeq(CountryRollup(df_raw),
              LAMBDA r : r.Region \in selected_regions
                         /\ r.Country \in selected_countries)

\* the filtered RegionRollup as the records, the current selection and the
\* current currency give it
ExpectedRegionFiltered ==
    LET view == ExpectedFiltered
        regs == SelectSeq(RegionNames,
                          LAMBDA g : \E i \in DOMAIN view : view[i].Region = g)
        own(g) == {i \in DOMAIN view : view[i].Region = g}
    IN [k \in DOMAIN regs |->
          [Region |-> regs[k], Countries |-> Cardinality(own(regs[k]))] @@
          [c \in {Val2024(usd_mode), Val2025(usd_mode), ValTotal(usd_mode)} |->
              SumAt(view, own(regs[k]), c)]]

\* C13: after a successful load no step (region selection, country
\* selection, currency, Top-N, pick, reload) changes the ExportRecord table
\* or the unfiltered CountryRollup, and after every step FilteredView and the
\* filtered RegionRollup are what the records and the current selection and
\* currency give, whatever the history: two histories ending in the same
\* selection and currency show identical views.
C13_ViewsFollowSelection ==
    /\ [][pc = "ready" => (df_raw' = df_raw /\ df_country' = df_country)]_vars
    /\ [](pc = "ready" => /\ df_filtered = ExpectedFiltered
                          /\ df_region_filtered = ExpectedRegionFiltered)

\* several changes in: EGP mode, the slider moved, part of the rollup
\* filtered out and part still in view
C13_Witness ==
    /\ pc = "ready"
    /\ ~usd_mode
    /\ top_n # TopNDefault
    /\ df_filtered # <<>>
    /\ Len(df_filtered) < Len(df_country)
    /\ df_region_filtered # <<>>

====
